---- MODULE Spec2Model ----
(***************************************************************************)
(* Model of src/compression_data.py (Python 2): the sentence-compression   *)
(* corpus loader.  load_compression_data iterates over the records, and    *)
(* compression_json_to_example extracts the sentence tokens of a record,   *)
(* normalises the compression text (get_compression_tokens) and aligns     *)
(* the two token sequences (get_labels).                                   *)
(*                                                                         *)
(* Python strings are TLA+ strings (sequences of characters); Python       *)
(* lists and tuples are TLA+ sequences, 1-based instead of 0-based.        *)
(***************************************************************************)
EXTENDS Integers, Sequences, FiniteSets, TLC

VARIABLES
    pc,                 \* position of the program
    caller,             \* the function the run was entered through
    records,            \* what get_compression_json(path) yields, in order
    limit,              \* load_compression_data: limit (<<>> is None, <<n>> is n)
    record_index,       \* number of records the generator has yielded
    examples,           \* load_compression_data: examples
    json_object,        \* compression_json_to_example: json_object
    sentence_tokens,    \* compression_json_to_example: sentence_tokens
    compression,        \* the compression text (lowercased at line 151)
    token_forms_set,    \* get_compression_tokens: token_forms_set
    raw_tokens,         \* get_compression_tokens: compression[:-1].split(" ")
    token_index,        \* position of the for loop of line 154 (1-based)
    token,              \* get_compression_tokens: token, after lines 156-162
    compression_tokens, \* get_compression_tokens / get_labels: compression_tokens
    first_tokens,       \* result of the first normalisation, kept for the second
    lowercase_tokens,   \* get_labels: sentence_tokens (the caller's lowercase_tokens)
    labels,             \* get_labels: labels
    sentence_index,     \* get_labels: sentence_index (0-based as in the code)
    compression_index,  \* get_labels: compression_index (0-based as in the code)
    example             \* compression_json_to_example: example

vars == <<pc, caller, records, limit, record_index, examples, json_object,
          sentence_tokens, compression, token_forms_set, raw_tokens,
          token_index, token, compression_tokens, first_tokens,
          lowercase_tokens, labels, sentence_index, compression_index,
          example>>

-----------------------------------------------------------------------------
(* Bounds of the model *)

MaxSentence == 3      \* longest sentence-token sequence handed to get_labels
MaxCompression == 4   \* longest compression-token sequence handed to get_labels

Min(I) == CHOOSE i \in I : \A j \in I : i <= j

\* All sequences over S of length at most n.
RECURSIVE SeqUpTo(_, _)
SeqUpTo(S, n) ==
    IF n = 0 THEN {<<>>}
    ELSE LET shorter == SeqUpTo(S, n - 1)
         IN  shorter \cup {Append(s, x) : s \in {t \in shorter : Len(t) = n - 1}, x \in S}

-----------------------------------------------------------------------------
(* Python string primitives *)

\* str.endswith
EndsWith(s, suffix) ==
    /\ Len(s) >= Len(suffix)
    /\ SubSeq(s, Len(s) - Len(suffix) + 1, Len(s)) = suffix

\* str.startswith
StartsWith(s, prefix) ==
    /\ Len(s) >= Len(prefix)
    /\ SubSeq(s, 1, Len(prefix)) = prefix

\* s[:-n] for n > 0
DropLast(s, n) == IF Len(s) <= n THEN "" ELSE SubSeq(s, 1, Len(s) - n)

\* s[n:]
DropFirst(s, n) == IF Len(s) <= n THEN "" ELSE SubSeq(s, n + 1, Len(s))

\* s[-n:] for n > 0
TakeLast(s, n) == IF Len(s) <= n THEN s ELSE SubSeq(s, Len(s) - n + 1, Len(s))

UpperCase == "ABCDEFGHIJKLMNOPQRSTUVWXYZ"
LowerCase == "abcdefghijklmnopqrstuvwxyz"

LowerChar(c) ==
    IF \E i \in 1..Len(UpperCase) : SubSeq(UpperCase, i, i) = c
    THEN LET i == CHOOSE i \in 1..Len(UpperCase) : SubSeq(UpperCase, i, i) = c
         IN  SubSeq(LowerCase, i, i)
    ELSE c

\* str.lower
RECURSIVE Lower(_)
Lower(s) == IF s = "" THEN "" ELSE LowerChar(SubSeq(s, 1, 1)) \o Lower(DropFirst(s, 1))

-----------------------------------------------------------------------------
(* get_labels, lines 97-123 *)

KEEP == 0
DELETE == 1

\* line 106: assert sentence_tokens_length >= compression_tokens_length
AssertStrict(sentence_tokens_length, compression_tokens_length) ==
    sentence_tokens_length > compression_tokens_length

AssertLengths(sentence_tokens_length, compression_tokens_length) ==
    sentence_tokens_length >= compression_tokens_length

\* line 108: labels = [1] * sentence_tokens_length
InitLabels(sentence_tokens_length) == [i \in 1..sentence_tokens_length |-> DELETE]

\* One iteration of the loop body, lines 114-121; the result is the triple
\* <<labels, sentence_index, compression_index>> after the iteration.
LoopBodyKeepCursor(S, C, lab, si, ci) ==
    IF S[si + 1] = C[ci + 1]
    THEN <<[lab EXCEPT ![si + 1] = KEEP], si + 1, ci>>
    ELSE <<lab, si + 1, ci>>

LoopBodyAdvanceBoth(S, C, lab, si, ci) ==
    IF S[si + 1] = C[ci + 1]
    THEN <<[lab EXCEPT ![si + 1] = KEEP], si + 1, ci + 1>>
    ELSE <<lab, si + 1, ci + 1>>

LoopBody(S, C, lab, si, ci) ==
    IF S[si + 1] = C[ci + 1]
    THEN <<[lab EXCEPT ![si + 1] = KEEP], si + 1, ci + 1>>
    ELSE <<lab, si + 1, ci>>

\* lines 104-110: entry of get_labels, the assertion and the initialisation
GetLabelsEnter ==
    /\ pc = "get_labels"
    /\ IF AssertLengths(Len(lowercase_tokens), Len(compression_tokens))
       THEN /\ labels' = InitLabels(Len(lowercase_tokens))
            /\ sentence_index' = 0
            /\ compression_index' = 0
            /\ pc' = "loop"
       ELSE /\ pc' = "AssertionError"
            /\ UNCHANGED <<labels, sentence_index, compression_index>>
    /\ UNCHANGED <<caller, records, limit, record_index, examples, json_object,
                   sentence_tokens, compression, token_forms_set, raw_tokens,
                   token_index, token, compression_tokens, first_tokens,
                   lowercase_tokens, example>>

\* lines 112-121: one iteration of the while loop
LabelStep ==
    /\ pc = "loop"
    /\ sentence_index < Len(lowercase_tokens)
    /\ compression_index < Len(compression_tokens)
    /\ LET r == LoopBody(lowercase_tokens, compression_tokens,
                         labels, sentence_index, compression_index)
       IN  /\ labels' = r[1]
           /\ sentence_index' = r[2]
           /\ compression_index' = r[3]
    /\ UNCHANGED <<pc, caller, records, limit, record_index, examples,
                   json_object, sentence_tokens, compression, token_forms_set,
                   raw_tokens, token_index, token, compression_tokens,
                   first_tokens, lowercase_tokens, example>>

\* lines 112-113 false, line 123: return labels
GetLabelsReturn ==
    /\ pc = "loop"
    /\ ~ (/\ sentence_index < Len(lowercase_tokens)
          /\ compression_index < Len(compression_tokens))
    /\ pc' = IF caller = "get_labels" THEN "returned" ELSE "example"
    /\ UNCHANGED <<caller, records, limit, record_index, examples, json_object,
                   sentence_tokens, compression, token_forms_set, raw_tokens,
                   token_index, token, compression_tokens, first_tokens,
                   lowercase_tokens, labels, sentence_index, compression_index,
                   example>>

-----------------------------------------------------------------------------
(* get_compression_tokens, lines 126-208 *)

\* lines 135-148 (the key "mass" is written twice in the source)
special_abbreviations ==
    ("co" :> "co.") @@ ("corp" :> "corp.") @@ ("ltd" :> "ltd.") @@
    ("inc" :> "inc.") @@ ("va" :> "va.") @@ ("wis" :> "wis.") @@
    ("pa" :> "pa.") @@ ("st" :> "st.") @@ ("mass" :> "mass.") @@
    ("ont" :> "ont.") @@ ("v" :> "v.") @@ ("calif" :> "calif.") @@
    ("app" :> "app.")

\* line 130 and 133: the set of the lowercased forms of the sentence tokens
TokenFormsSet(tokens) == {Lower(tokens[i][2]) : i \in 1..Len(tokens)}

\* str.split(" "): cut at every single space, empty pieces are kept
RECURSIVE Split(_)
Split(s) ==
    IF \E i \in 1..Len(s) : SubSeq(s, i, i) = " "
    THEN LET i == Min({k \in 1..Len(s) : SubSeq(s, k, k) = " "})
         IN  <<SubSeq(s, 1, i - 1)>> \o Split(DropFirst(s, i))
    ELSE <<s>>

\* line 154: compression[:-1], the text without its last character
DropTerminatorKept(text) == text

DropTerminator(text) == DropLast(text, 1)

\* lines 156-157: a token does not end with ","
StripComma(t) == IF EndsWith(t, ",") THEN DropLast(t, 1) ELSE t

\* lines 160-162: the special abbreviations
AbbreviateAlways(t, forms) ==
    IF t \in DOMAIN special_abbreviations THEN special_abbreviations[t] ELSE t

Abbreviate(t, forms) ==
    IF t \in DOMAIN special_abbreviations
    THEN IF special_abbreviations[t] \in forms
         THEN special_abbreviations[t]
         ELSE t
    ELSE t

\* lines 195-198: the two-character quotation marks.  A TLA+ string cannot
\* end in a backquote, so the opening mark is cut out of the pair.
QuotePair == "``''"
OpenQuote == SubSeq(QuotePair, 1, 2)
CloseQuote == SubSeq(QuotePair, 3, 4)

\* lines 164-206: the tokens one raw token appends to compression_tokens
EmitNoElif(t) ==
    (IF t = "'s" THEN <<t>> ELSE <<>>) \o
    (IF EndsWith(t, "'s") THEN <<DropLast(t, 2), TakeLast(t, 2)>>
     ELSE IF EndsWith(t, "n't") THEN <<DropLast(t, 3), TakeLast(t, 3)>>
     ELSE IF EndsWith(t, "%") THEN <<DropLast(t, 1), TakeLast(t, 1)>>
     ELSE IF t \in {"-", ":", ";", "", "/", "!"} THEN <<>>
     ELSE IF t = "different." THEN <<"different">>
     ELSE IF t = "prisoner." THEN <<"prisoner">>
     ELSE IF t = "bar." THEN <<"bar">>
     ELSE IF t = "declared." THEN <<"declared">>
     ELSE IF StartsWith(t, OpenQuote) /\ EndsWith(t, CloseQuote)
          THEN <<OpenQuote, DropLast(DropFirst(t, 2), 2), CloseQuote>>
     ELSE IF StartsWith(t, "(") THEN <<DropFirst(t, 1)>>
     ELSE IF EndsWith(t, ")") THEN <<DropLast(t, 1)>>
     ELSE IF EndsWith(t, "?") THEN <<DropLast(t, 1)>>
     ELSE <<t>>)

EmitUnsplitNt(t) ==
    IF t = "'s" THEN <<t>>
    ELSE IF EndsWith(t, "'s") THEN <<DropLast(t, 2), TakeLast(t, 2)>>
    ELSE IF EndsWith(t, "%") THEN <<DropLast(t, 1), TakeLast(t, 1)>>
    ELSE IF t \in {"-", ":", ";", "", "/", "!"} THEN <<>>
    ELSE IF t = "different." THEN <<"different">>
    ELSE IF t = "prisoner." THEN <<"prisoner">>
    ELSE IF t = "bar." THEN <<"bar">>
    ELSE IF t = "declared." THEN <<"declared">>
    ELSE IF StartsWith(t, OpenQuote) /\ EndsWith(t, CloseQuote)
         THEN <<OpenQuote, DropLast(DropFirst(t, 2), 2), CloseQuote>>
    ELSE IF StartsWith(t, "(") THEN <<DropFirst(t, 1)>>
    ELSE IF EndsWith(t, ")") THEN <<DropLast(t, 1)>>
    ELSE IF EndsWith(t, "?") THEN <<DropLast(t, 1)>>
    ELSE <<t>>

Emit(t) ==
    IF t = "'s" THEN <<t>>
    ELSE IF EndsWith(t, "'s") THEN <<DropLast(t, 2), TakeLast(t, 2)>>
    ELSE IF EndsWith(t, "n't") THEN <<DropLast(t, 3), TakeLast(t, 3)>>
    ELSE IF EndsWith(t, "%") THEN <<DropLast(t, 1), TakeLast(t, 1)>>
    ELSE IF t \in {"-", ":", ";", "", "/", "!"} THEN <<>>
    ELSE IF t = "different." THEN <<"different">>
    ELSE IF t = "prisoner." THEN <<"prisoner">>
    ELSE IF t = "bar." THEN <<"bar">>
    ELSE IF t = "declared." THEN <<"declared">>
    ELSE IF StartsWith(t, OpenQuote) /\ EndsWith(t, CloseQuote)
         THEN <<OpenQuote, DropLast(DropFirst(t, 2), 2), CloseQuote>>
    ELSE IF StartsWith(t, "(") THEN <<DropFirst(t, 1)>>
    ELSE IF EndsWith(t, ")") THEN <<DropLast(t, 1)>>
    ELSE IF EndsWith(t, "?") THEN <<DropLast(t, 1)>>
    ELSE <<t>>

\* lines 130-154: entry of get_compression_tokens, up to the split
NormalizeEnter ==
    /\ pc = "get_compression_tokens"
    /\ token_forms_set' = TokenFormsSet(sentence_tokens)
    /\ compression' = Lower(compression)
    /\ compression_tokens' = <<>>
    /\ raw_tokens' = Split(DropTerminator(Lower(compression)))
    /\ token_index' = 1
    /\ pc' = "for_token"
    /\ UNCHANGED <<caller, records, limit, record_index, examples, json_object,
                   sentence_tokens, token, first_tokens, lowercase_tokens,
                   labels, sentence_index, compression_index, example>>

\* lines 154-162: the next raw token, its comma and its abbreviation
AbbreviateToken ==
    /\ pc = "for_token"
    /\ token_index <= Len(raw_tokens)
    /\ token' = Abbreviate(StripComma(raw_tokens[token_index]), token_forms_set)
    /\ pc' = "rules"
    /\ UNCHANGED <<caller, records, limit, record_index, examples, json_object,
                   sentence_tokens, compression, token_forms_set, raw_tokens,
                   token_index, compression_tokens, first_tokens,
                   lowercase_tokens, labels, sentence_index, compression_index,
                   example>>

\* lines 164-206: the if/elif chain of the splitting rules
SplitToken ==
    /\ pc = "rules"
    /\ compression_tokens' = compression_tokens \o Emit(token)
    /\ token_index' = token_index + 1
    /\ pc' = "for_token"
    /\ UNCHANGED <<caller, records, limit, record_index, examples, json_object,
                   sentence_tokens, compression, token_forms_set, raw_tokens,
                   token, first_tokens, lowercase_tokens, labels,
                   sentence_index, compression_index, example>>

\* line 208: return compression_tokens
NormalizeReturn ==
    /\ pc = "for_token"
    /\ token_index > Len(raw_tokens)
    /\ pc' = IF caller = "get_compression_tokens"
             THEN IF first_tokens = "None" THEN "normalized" ELSE "renormalized"
             ELSE "lowercase"
    /\ UNCHANGED <<caller, records, limit, record_index, examples, json_object,
                   sentence_tokens, compression, token_forms_set, raw_tokens,
                   token_index, token, compression_tokens, first_tokens,
                   lowercase_tokens, labels, sentence_index, compression_index,
                   example>>

\* " ".join(tokens)
RECURSIVE Join(_)
Join(tokens) ==
    IF tokens = <<>> THEN ""
    ELSE IF Len(tokens) = 1 THEN tokens[1]
    ELSE tokens[1] \o " " \o Join(Tail(tokens))

\* The normalised tokens are normalised again: get_compression_tokens is
\* called with the same sentence and the tokens joined by single spaces,
\* followed by one terminating character.
Renormalize ==
    /\ pc = "normalized"
    /\ first_tokens' = compression_tokens
    /\ compression' = Join(compression_tokens) \o "."
    /\ pc' = "get_compression_tokens"
    /\ UNCHANGED <<caller, records, limit, record_index, examples, json_object,
                   sentence_tokens, token_forms_set, raw_tokens, token_index,
                   token, compression_tokens, lowercase_tokens, labels,
                   sentence_index, compression_index, example>>

-----------------------------------------------------------------------------
(* get_compression_tokens on its own: the sentence and the text are inputs *)

MaxRawTokens == 2     \* most whitespace-delimited tokens in a compression text

\* Raw tokens that reach every branch of lines 156-206.
RawVocabulary ==
    {"He", "co", "Corp,", "(co", "'s", "x's", "isn't", "n't", "5%", "%",
     "-", ":", ";", "", "/", "!", "different.", "prisoner.", "bar.",
     "declared.", "``a''", QuotePair, "(a", "a)", "a?", "a", "co."}

Sentences ==
    {<< <<0, "The", "DT", "the">>, <<1, "Co.", "NNP", "co.">>,
        <<2, "filed", "VBD", "file">> >>,
     << <<0, "He", "PRP", "he">>, <<1, "isn't", "VBZ", "be">>,
        <<2, "here", "RB", "here">> >>}

InitTokensRun ==
    /\ pc = "get_compression_tokens"
    /\ caller = "get_compression_tokens"
    /\ sentence_tokens \in Sentences
    /\ \E ws \in SeqUpTo(RawVocabulary, MaxRawTokens) :
           compression = Join(ws) \o "."
    /\ records = <<>>
    /\ limit = <<>>
    /\ record_index = 0
    /\ examples = <<>>
    /\ json_object = "None"
    /\ token_forms_set = {}
    /\ raw_tokens = <<>>
    /\ token_index = 0
    /\ token = ""
    /\ compression_tokens = <<>>
    /\ first_tokens = "None"
    /\ lowercase_tokens = <<>>
    /\ labels = "None"
    /\ sentence_index = 0
    /\ compression_index = 0
    /\ example = "None"

NextTokens ==
    \/ NormalizeEnter
    \/ AbbreviateToken
    \/ SplitToken
    \/ NormalizeReturn
    \/ Renormalize

SpecTokens == InitTokensRun /\ [][NextTokens]_vars

-----------------------------------------------------------------------------
(* compression_json_to_example, lines 58-94 *)

\* A word of the token graph and a sentence token are the tuple
\* <<id, form, tag, stem>> of lines 71-74; a node is [word |-> its words];
\* a record is [node |-> graph.node, text |-> compression.text].

\* lines 68-69: the words of all nodes, in graph order
RECURSIVE FlattenWords(_)
FlattenWords(nodes) ==
    IF nodes = <<>> THEN <<>>
    ELSE Head(nodes).word \o FlattenWords(Tail(nodes))

\* line 70: word["id"] is not -1 (CPython keeps one object for the small
\* integer -1, so the identity test is the comparison of the values)
SENTINEL == -1

IsToken(word) == word[1] # SENTINEL

\* lines 67-75: the sentence tokens before the sort
Candidates(nodes) == SelectSeq(FlattenWords(nodes), IsToken)

\* line 78: sentence_tokens.sort(key=lambda x: x[0]); list.sort is stable,
\* tokens with equal ids keep their order
SortByIdOmitted(tokens) == tokens

RECURSIVE SortById(_)
SortById(tokens) ==
    IF tokens = <<>> THEN <<>>
    ELSE LET n == Len(tokens)
             sorted == SortById(SubSeq(tokens, 1, n - 1))
             x == tokens[n]
             k == Cardinality({i \in 1..(n - 1) : sorted[i][1] <= x[1]})
         IN  SubSeq(sorted, 1, k) \o <<x>> \o SubSeq(sorted, k + 1, n - 1)

\* line 9 and 91: Token(form=form, tag=tag, stem=stem, label=label)
TokenSwapped(form, tag, stem, label) ==
    [form |-> form, tag |-> stem, stem |-> tag, label |-> label]

Token(form, tag, stem, label) ==
    [form |-> form, tag |-> tag, stem |-> stem, label |-> label]

\* lines 88-92: zip(labels, sentence_tokens) stops at the shorter of the two
MakeExample(labs, tokens) ==
    [i \in 1..Min({Len(labs), Len(tokens)}) |->
        Token(tokens[i][2], tokens[i][3], tokens[i][4], labs[i])]

\* lines 61-81: the record's fields, the sentence tokens, the call of
\* get_compression_tokens
ExtractTokens ==
    /\ pc = "compression_json_to_example"
    /\ sentence_tokens' = SortById(Candidates(json_object.node))
    /\ compression' = json_object.text
    /\ pc' = "get_compression_tokens"
    /\ UNCHANGED <<caller, records, limit, record_index, examples, json_object,
                   token_forms_set, raw_tokens, token_index, token,
                   compression_tokens, first_tokens, lowercase_tokens, labels,
                   sentence_index, compression_index, example>>

\* lines 84-85: the lowercased forms, the call of get_labels
LowerForms ==
    /\ pc = "lowercase"
    /\ lowercase_tokens' = [i \in 1..Len(sentence_tokens) |->
                               Lower(sentence_tokens[i][2])]
    /\ pc' = "get_labels"
    /\ UNCHANGED <<caller, records, limit, record_index, examples, json_object,
                   sentence_tokens, compression, token_forms_set, raw_tokens,
                   token_index, token, compression_tokens, first_tokens,
                   labels, sentence_index, compression_index, example>>

\* lines 88-94: the example is built and returned
BuildExample ==
    /\ pc = "example"
    /\ example' = MakeExample(labels, sentence_tokens)
    /\ pc' = IF caller = "compression_json_to_example"
             THEN "example_returned" ELSE "append"
    /\ UNCHANGED <<caller, records, limit, record_index, examples, json_object,
                   sentence_tokens, compression, token_forms_set, raw_tokens,
                   token_index, token, compression_tokens, first_tokens,
                   lowercase_tokens, labels, sentence_index, compression_index>>

-----------------------------------------------------------------------------
(* load_compression_data, lines 11-38 *)

\* The optional argument limit is <<>> for None and <<n>> for the integer n.
None == <<>>

\* line 35: if limit (None and 0 are both false)
LimitGiven(lim) == lim # None /\ lim[1] # 0

\* lines 32-33: the generator yields the next record and
\* compression_json_to_example is called with it, in a new frame
LoadNext ==
    /\ pc = "load_compression_data"
    /\ record_index < Len(records)
    /\ json_object' = records[record_index + 1]
    /\ record_index' = record_index + 1
    /\ pc' = "compression_json_to_example"
    /\ sentence_tokens' = <<>>
    /\ compression' = ""
    /\ token_forms_set' = {}
    /\ raw_tokens' = <<>>
    /\ token_index' = 0
    /\ token' = ""
    /\ compression_tokens' = <<>>
    /\ lowercase_tokens' = <<>>
    /\ labels' = "None"
    /\ sentence_index' = 0
    /\ compression_index' = 0
    /\ example' = "None"
    /\ UNCHANGED <<caller, records, limit, examples, first_tokens>>

\* lines 34-37: the example is appended; with a limit that is reached the
\* loop is left (line 37) and the examples are returned (line 38)
AppendExample ==
    /\ pc = "append"
    /\ examples' = Append(examples, example)
    /\ pc' = IF LimitGiven(limit) /\ Len(examples) + 1 = limit[1]
             THEN "load_returned"
             ELSE "load_compression_data"
    /\ UNCHANGED <<caller, records, limit, record_index, json_object,
                   sentence_tokens, compression, token_forms_set, raw_tokens,
                   token_index, token, compression_tokens, first_tokens,
                   lowercase_tokens, labels, sentence_index, compression_index,
                   example>>

\* line 32 with the generator exhausted, line 38: return examples
LoadReturn ==
    /\ pc = "load_compression_data"
    /\ record_index = Len(records)
    /\ pc' = "load_returned"
    /\ UNCHANGED <<caller, records, limit, record_index, examples, json_object,
                   sentence_tokens, compression, token_forms_set, raw_tokens,
                   token_index, token, compression_tokens, first_tokens,
                   lowercase_tokens, labels, sentence_index, compression_index,
                   example>>

-----------------------------------------------------------------------------
(* Records *)

MaxNodes == 2         \* most nodes in a token graph
MaxWords == 2         \* most word candidates in a node
MaxRecords == 2       \* most records in the corpus
MaxLimit == 3         \* largest limit given to load_compression_data

WordIds == {SENTINEL, 0, 1}

Letters == "abcdefghijklmnopqrstuvwxyz"

\* The k-th word candidate of a graph in graph order: its form alternates
\* between "A" and "b", its tag is unique in the graph.
WordAt(id, k) ==
    <<id, IF k % 2 = 1 THEN "A" ELSE "b", "T" \o SubSeq(Letters, k, k),
      IF k % 2 = 1 THEN "a" ELSE "b">>

RECURSIVE WordsBefore(_, _)
WordsBefore(ids, i) == IF i = 1 THEN 0 ELSE WordsBefore(ids, i - 1) + Len(ids[i - 1])

\* The graph whose i-th node has the word candidates with the ids ids[i].
GraphOf(ids) ==
    [i \in 1..Len(ids) |->
        [word |-> [j \in 1..Len(ids[i]) |->
                      WordAt(ids[i][j], WordsBefore(ids, i) + j)]]]

Graphs == {GraphOf(ids) : ids \in SeqUpTo(SeqUpTo(WordIds, MaxWords), MaxNodes)}

Texts == {"A b.", "b, (A?"}

\* One word per node, ids in the order given.
NodesOf(words) == [i \in 1..Len(words) |-> [word |-> <<words[i]>>]]

RecordCo ==
    [node |-> NodesOf(<< <<0, "The", "DT", "the">>, <<1, "Co.", "NNP", "co.">>,
                         <<2, "filed", "VBD", "file">> >>),
     text |-> "The co filed."]

RecordIsnt ==
    [node |-> NodesOf(<< <<0, "He", "PRP", "he">>, <<1, "isn't", "VBZ", "be">>,
                         <<2, "here", "RB", "here">> >>),
     text |-> "He isn't here."]

RecordIsntNow ==
    [node |-> NodesOf(<< <<-1, "ROOT", "ROOT", "ROOT">>,
                         <<3, "now", "RB", "now">>, <<0, "He", "PRP", "he">>,
                         <<1, "isn't", "VBZ", "be">>,
                         <<2, "here", "RB", "here">> >>),
     text |-> "He isn't here."]

RecordEmpty ==
    [node |-> NodesOf(<< <<1, "b", "NN", "b">>, <<0, "A", "DT", "a">> >>),
     text |-> ""]

ScenarioRecords == {RecordCo, RecordIsnt, RecordIsntNow, RecordEmpty}

-----------------------------------------------------------------------------
(* compression_json_to_example on its own: the record is the input *)

InitExampleRun ==
    /\ pc = "compression_json_to_example"
    /\ caller = "compression_json_to_example"
    /\ json_object \in {[node |-> g, text |-> t] : g \in Graphs, t \in Texts}
                           \cup ScenarioRecords
    /\ records = <<>>
    /\ limit = <<>>
    /\ record_index = 0
    /\ examples = <<>>
    /\ sentence_tokens = <<>>
    /\ compression = ""
    /\ token_forms_set = {}
    /\ raw_tokens = <<>>
    /\ token_index = 0
    /\ token = ""
    /\ compression_tokens = <<>>
    /\ first_tokens = "None"
    /\ lowercase_tokens = <<>>
    /\ labels = "None"
    /\ sentence_index = 0
    /\ compression_index = 0
    /\ example = "None"

NextExample ==
    \/ ExtractTokens
    \/ NormalizeEnter
    \/ AbbreviateToken
    \/ SplitToken
    \/ NormalizeReturn
    \/ LowerForms
    \/ GetLabelsEnter
    \/ LabelStep
    \/ GetLabelsReturn
    \/ BuildExample

SpecExample == InitExampleRun /\ [][NextExample]_vars

-----------------------------------------------------------------------------
(* load_compression_data: the records and the limit are the inputs *)

Init ==
    /\ pc = "load_compression_data"
    /\ caller = "load_compression_data"
    /\ records \in SeqUpTo(ScenarioRecords, MaxRecords)
    /\ limit \in {None} \cup {<<n>> : n \in 0..MaxLimit}
    /\ record_index = 0
    /\ examples = <<>>
    /\ json_object = "None"
    /\ sentence_tokens = <<>>
    /\ compression = ""
    /\ token_forms_set = {}
    /\ raw_tokens = <<>>
    /\ token_index = 0
    /\ token = ""
    /\ compression_tokens = <<>>
    /\ first_tokens = "None"
    /\ lowercase_tokens = <<>>
    /\ labels = "None"
    /\ sentence_index = 0
    /\ compression_index = 0
    /\ example = "None"

Next ==
    \/ LoadNext
    \/ ExtractTokens
    \/ NormalizeEnter
    \/ AbbreviateToken
    \/ SplitToken
    \/ NormalizeReturn
    \/ LowerForms
    \/ GetLabelsEnter
    \/ LabelStep
    \/ GetLabelsReturn
    \/ BuildExample
    \/ AppendExample
    \/ LoadReturn

Spec == Init /\ [][Next]_vars

-----------------------------------------------------------------------------
(* get_labels on its own: the two token sequences are the inputs *)

LabelTokens == {"a", "b"}

InitLabelsRun ==
    /\ pc = "get_labels"
    /\ caller = "get_labels"
    /\ lowercase_tokens \in SeqUpTo(LabelTokens, MaxSentence)
    /\ compression_tokens \in SeqUpTo(LabelTokens, MaxCompression)
    /\ records = <<>>
    /\ limit = <<>>
    /\ record_index = 0
    /\ examples = <<>>
    /\ json_object = "None"
    /\ sentence_tokens = <<>>
    /\ compression = ""
    /\ token_forms_set = {}
    /\ raw_tokens = <<>>
    /\ token_index = 0
    /\ token = ""
    /\ first_tokens = "None"
    /\ labels = "None"
    /\ sentence_index = 0
    /\ compression_index = 0
    /\ example = "None"

NextLabels == GetLabelsEnter \/ LabelStep \/ GetLabelsReturn

SpecLabels == InitLabelsRun /\ [][NextLabels]_vars

-----------------------------------------------------------------------------
(* Properties of get_labels *)

\* The positions p_1 < p_2 < ... < p_k: p_j is the smallest index greater
\* than p_(j-1) (prev) with S[p_j] = C[j]; the sequence ends at the first
\* compression token that has no such index.
RECURSIVE GreedyPositions(_, _, _, _)
GreedyPositions(S, C, j, prev) ==
    LET candidates == {p \in (prev + 1)..Len(S) : S[p] = C[j]}
    IN  IF j > Len(C) \/ candidates = {}
        THEN <<>>
        ELSE <<Min(candidates)>> \o GreedyPositions(S, C, j + 1, Min(candidates))

\* The sentence tokens labeled KEEP, read in order.
RECURSIVE KeptTokens(_, _)
KeptTokens(S, lab) ==
    IF S = <<>> THEN <<>>
    ELSE (IF Head(lab) = KEEP THEN <<Head(S)>> ELSE <<>>)
         \o KeptTokens(Tail(S), Tail(lab))

\* C is an ordered, not necessarily contiguous, subsequence of S.
IsSubsequence(C, S) ==
    \E f \in [1..Len(C) -> 1..Len(S)] :
        /\ \A i, j \in 1..Len(C) : i < j => f[i] < f[j]
        /\ \A j \in 1..Len(C) : S[f[j]] = C[j]

\* C1: when get_labels returns, the positions labeled KEEP are exactly the
\* greedy positions p_1 < ... < p_k, every other position is DELETE, and the
\* KEEP tokens read in order are the prefix C[1..k] of the compression tokens.
C1_GreedyMatch ==
    pc = "returned" =>
        LET P == GreedyPositions(lowercase_tokens, compression_tokens, 1, 0)
        IN  /\ labels = [i \in 1..Len(lowercase_tokens) |->
                            IF \E j \in 1..Len(P) : P[j] = i THEN KEEP ELSE DELETE]
            /\ KeptTokens(lowercase_tokens, labels)
                   = SubSeq(compression_tokens, 1, Len(P))

\* get_labels returned with a gap between two KEEPs and an unmatched
\* compression token left over.
C1_Witness ==
    /\ pc = "returned"
    /\ labels = <<KEEP, DELETE, KEEP>>
    /\ Len(compression_tokens) = 3

\* C2: get_labels fails its assertion, producing no labels, if and only if
\* there are more compression tokens than sentence tokens; otherwise it runs
\* the loop and returns labels, matched or not.
C2_AssertIff ==
    /\ pc = "AssertionError" =>
           /\ Len(compression_tokens) > Len(lowercase_tokens)
           /\ labels = "None"
    /\ pc \in {"loop", "returned"} =>
           /\ Len(compression_tokens) <= Len(lowercase_tokens)
           /\ labels \in [1..Len(lowercase_tokens) -> {KEEP, DELETE}]

\* get_labels returned although a compression token was never matched.
C2_Witness ==
    /\ pc = "returned"
    /\ Len(compression_tokens) = Len(lowercase_tokens)
    /\ Len(KeptTokens(lowercase_tokens, labels)) < Len(compression_tokens)

\* C10: when the compression tokens are a subsequence of the sentence
\* tokens, get_labels matches every one of them: the KEEP tokens read in
\* order are the compression tokens.
C10_SubsequenceFullyMatched ==
    (pc = "returned" /\ IsSubsequence(compression_tokens, lowercase_tokens)) =>
        /\ KeptTokens(lowercase_tokens, labels) = compression_tokens
        /\ Cardinality({i \in 1..Len(labels) : labels[i] = KEEP})
               = Len(compression_tokens)

\* get_labels returned for a subsequence that has two alignments
\* (<<"a", "b">> in <<"a", "a", "b">>) and found the earliest one.
C10_Witness ==
    /\ pc = "returned"
    /\ lowercase_tokens = <<"a", "a", "b">>
    /\ compression_tokens = <<"a", "b">>
    /\ labels = <<KEEP, DELETE, KEEP>>

-----------------------------------------------------------------------------
(* Properties of get_compression_tokens *)

\* The raw token at the cursor without its one trailing comma.
CurrentRawToken ==
    LET raw == raw_tokens[token_index]
    IN  IF Len(raw) > 0 /\ SubSeq(raw, Len(raw), Len(raw)) = ","
        THEN SubSeq(raw, 1, Len(raw) - 1)
        ELSE raw

AbbreviationKeys ==
    {"co", "corp", "ltd", "inc", "va", "wis", "pa", "st", "mass", "ont", "v",
     "calif", "app"}

LoweredSentenceForms == {Lower(sentence_tokens[i][2]) : i \in 1..Len(sentence_tokens)}

\* C8: a raw token that, lowercased and without its trailing comma, is a key
\* of the abbreviation table reaches the splitting rules as key + "." if and
\* only if key + "." is one of the lowercased sentence forms, and unchanged
\* otherwise; a token that is not a key reaches them unchanged.
C8_AbbreviationRewrite ==
    pc = "rules" =>
        IF CurrentRawToken \in AbbreviationKeys
        THEN /\ token = CurrentRawToken \o "."
                  <=> (CurrentRawToken \o ".") \in LoweredSentenceForms
             /\ token # CurrentRawToken \o "." => token = CurrentRawToken
        ELSE token = CurrentRawToken

\* "Corp," is a key after lowercasing and comma stripping, but "corp." is
\* not in the sentence; "co" is rewritten because "Co." is.
C8_Witness ==
    /\ pc = "rules"
    /\ raw_tokens = <<"corp,", "co">>
    /\ token_index = 2
    /\ token = "co."
    /\ compression_tokens = <<"corp">>

\* C9 as stated: one raw token contributes at most two output tokens.
C9_AtMostTwoPerToken ==
    [][pc = "rules" => Len(compression_tokens') <= Len(compression_tokens) + 2]_vars

QuoteWrapped(t) ==
    /\ Len(t) >= 2
    /\ SubSeq(t, 1, 2) = SubSeq(QuotePair, 1, 2)
    /\ SubSeq(t, Len(t) - 1, Len(t)) = SubSeq(QuotePair, 3, 4)

\* C9 amended: one raw token appends zero to three tokens to the output,
\* three only when it is wrapped in quotation marks and reaches the quote rule
\* (it is not 's-, n't- or %-terminated, which come first); the output
\* collected so far is never changed, and its length is at most three
\* times the number of raw tokens handled.
C9_AtMostThreePerToken ==
    /\ [][pc = "rules" =>
            /\ Len(compression_tokens') \in
                   Len(compression_tokens)..(Len(compression_tokens) + 3)
            /\ SubSeq(compression_tokens', 1, Len(compression_tokens))
                   = compression_tokens
            /\ Len(compression_tokens') = Len(compression_tokens) + 3
                   => QuoteWrapped(token)]_vars
    /\ [](pc = "for_token" => Len(compression_tokens) <= 3 * (token_index - 1))

\* The quote rule has appended three tokens for the one raw token.
C9_Witness ==
    /\ pc = "for_token"
    /\ raw_tokens = <<"``a''">>
    /\ token_index = 2
    /\ compression_tokens = <<OpenQuote, "a", CloseQuote>>

\* C6 as stated: normalising the normalised tokens again returns them.
C6_Idempotent ==
    pc = "renormalized" => compression_tokens = first_tokens

\* A token the normaliser leaves alone: 's, or a token that is not empty,
\* has no trailing comma, is not an abbreviation key whose punctuated form
\* is in the sentence, and is matched by none of the special cases.
NormalForm(t) ==
    \/ t = "'s"
    \/ /\ t \notin {"", "-", ":", ";", "/", "!"}
       /\ t \notin {"different.", "prisoner.", "bar.", "declared."}
       /\ ~ (t \in AbbreviationKeys /\ (t \o ".") \in LoweredSentenceForms)
       /\ SubSeq(t, Len(t), Len(t)) \notin {",", "%", ")", "?"}
       /\ SubSeq(t, 1, 1) # "("
       /\ ~ (Len(t) >= 2 /\ SubSeq(t, Len(t) - 1, Len(t)) = "'s")
       /\ ~ (Len(t) >= 3 /\ SubSeq(t, Len(t) - 2, Len(t)) = "n't")
       /\ ~ QuoteWrapped(t)

\* C6 amended: when every token of the first result is in normal form (no
\* further special characters), normalising the result again returns it.
C6_IdempotentOnNormalForms ==
    (/\ pc = "renormalized"
     /\ \A i \in 1..Len(first_tokens) : NormalForm(first_tokens[i]))
        => compression_tokens = first_tokens

\* The first pass rewrote "co" and split "x's"; the second pass has run on
\* "co. x 's." and returned the same three tokens.
C6_Witness ==
    /\ pc = "renormalized"
    /\ first_tokens = <<"co.", "x", "'s">>
    /\ compression = "co. x 's."
    /\ compression_tokens = first_tokens

-----------------------------------------------------------------------------
(* Properties of compression_json_to_example *)

\* The ids of the word candidates of the record, in graph order.
CandidateIds ==
    LET words == FlattenWords(json_object.node)
    IN  [i \in 1..Len(words) |-> words[i][1]]

\* The position in graph order of a word candidate (tags are unique in the
\* graphs of the model).
GraphPosition(word) ==
    LET words == FlattenWords(json_object.node)
    IN  CHOOSE i \in 1..Len(words) : words[i] = word

Extracted == pc # "compression_json_to_example"

C3_OneLabelPerToken ==
    /\ pc \in {"loop", "example", "example_returned"} =>
           /\ Len(labels) = Len(sentence_tokens)
           /\ \A i \in 1..Len(labels) : labels[i] \in {KEEP, DELETE}
    /\ pc = "example_returned" =>
           /\ Len(example) = Len(sentence_tokens)
           /\ Len(example)
                  = Cardinality({i \in DOMAIN CandidateIds : CandidateIds[i] # SENTINEL})
           /\ \A i \in 1..Len(example) :
                  /\ example[i].form = sentence_tokens[i][2]
                  /\ example[i].tag = sentence_tokens[i][3]
                  /\ example[i].stem = sentence_tokens[i][4]
                  /\ example[i].label = labels[i]
           /\ \A i \in 1..(Len(sentence_tokens) - 1) :
                  sentence_tokens[i][1] <= sentence_tokens[i + 1][1]

\* An example with both labels was returned for a graph that is out of
\* order and has a sentinel node.
C3_Witness ==
    /\ pc = "example_returned"
    /\ CandidateIds = <<1, SENTINEL, 0>>
    /\ Len(example) = 2
    /\ example[1] = [form |-> "A", tag |-> "Tc", stem |-> "a", label |-> KEEP]
    /\ example[2] = [form |-> "A", tag |-> "Ta", stem |-> "a", label |-> DELETE]

\* C7 as stated: the record whose sentence keeps "isn't" as one token is
\* processed without raising.
C7_IsntDoesNotRaise ==
    json_object = RecordIsnt => pc # "AssertionError"

Normalized ==
    pc \in {"lowercase", "get_labels", "loop", "example", "example_returned",
            "AssertionError"}

\* C7 amended: splitting "isn't" adds a compression token.  For the sentence
\* He / isn't / here and the compression "He isn't here." the normaliser
\* returns he, is, n't, here, four tokens for three sentence tokens, and
\* get_labels fails its assertion: no labels are produced.  With a fourth
\* sentence token (He / isn't / here / now) the same compression does not
\* raise and only under-labels: "isn't" is labeled DELETE and the fragments
\* "is" and "n't" are never matched.  No example is returned for a
\* compression with more tokens than the sentence.
C7_IsntRaisesUnlessSentenceLonger ==
    /\ (json_object = RecordIsnt /\ Normalized) =>
           /\ compression_tokens = <<"he", "is", "n't", "here">>
           /\ Len(sentence_tokens) = 3
           /\ pc \in {"lowercase", "get_labels", "AssertionError"}
           /\ labels = "None"
    /\ (json_object = RecordIsntNow /\ pc = "example_returned") =>
           /\ compression_tokens = <<"he", "is", "n't", "here">>
           /\ labels = <<KEEP, DELETE, DELETE, DELETE>>
           /\ example[2].form = "isn't"
           /\ example[2].label = DELETE
           /\ compression_index = 1
    /\ pc = "example_returned" => Len(compression_tokens) <= Len(sentence_tokens)

\* The record of He / isn't / here has failed the assertion of get_labels.
C7_Witness ==
    /\ json_object = RecordIsnt
    /\ pc = "AssertionError"
    /\ Len(compression_tokens) = 4
    /\ Len(lowercase_tokens) = 3

-----------------------------------------------------------------------------
(* Properties of load_compression_data *)

\* The forms of the sentence tokens of a record, in id order.
FormsOfRecord(record) ==
    LET tokens == SortById(Candidates(record.node))
    IN  [i \in 1..Len(tokens) |-> tokens[i][2]]

FormsOfExample(ex) == [i \in 1..Len(ex) |-> ex[i].form]

\* C4: load_compression_data returns the examples of the first
\* min(limit, n) of the n records, in input order, and has consumed no
\* further record; without a limit it returns the examples of all n.
C4_FirstLimitExamples ==
    pc = "load_returned" =>
        LET n == Len(records)
            m == IF limit = None THEN n ELSE Min({limit[1], n})
        IN  /\ Len(examples) = m
            /\ record_index = m
            /\ \A k \in 1..Len(examples) :
                   /\ k <= n
                   /\ FormsOfExample(examples[k]) = FormsOfRecord(records[k])

====
